---- MODULE Spec2Model ----
(***************************************************************************)
(* Model of the two asset-registry web applications (variants "anuncio"    *)
(* and "asset_manager"): the slug generator of Asset.save() under          *)
(* concurrent writers, the redirect guard is_safe_url, and the             *)
(* signup / login / logout routes.                                         *)
(*                                                                         *)
(* Text (display names, slugs, URLs) is a sequence of one-character        *)
(* strings, so that normalisation, suffixing and parsing are computed.     *)
(***************************************************************************)
EXTENDS Integers, Sequences, FiniteSets, TLC

VARIABLES
    variant,    \* which of the two applications this behaviour is about
    names,      \* the display names the asset forms submit in this behaviour
    asset,      \* table asset: sequence of rows, a row's id is its index
    sv,         \* per request process: the activation of Asset.save()
    user,       \* table user: sequence of rows, a row's id is its index
    session,    \* per client: id of the logged-in user, 0 when anonymous
    su,         \* per client: the activation of the signup route
    resp,       \* per client: the last response of a route
    next_arg,   \* the value of the 'next' query argument of the login links
    saves       \* number of Asset.save() calls begun so far

vars == <<variant, names, asset, sv, user, session, su, resp, next_arg, saves>>

Variants == {"anuncio", "asset_manager"}

------------------------------------------------------------------------------
(* Bounds of the model *)

MaxSaves == 3        \* Asset.save() calls begun in one behaviour
MaxNameLen == 3      \* longest display name of the slug alphabet sweep

\* the request processes (clients) that run concurrently
Procs == {"p1", "p2"}

------------------------------------------------------------------------------
(* Text helpers *)

Digits == <<"0", "1", "2", "3", "4", "5", "6", "7", "8", "9">>

\* str(n) as used by the f-strings f"{base_slug}-{counter}"
RECURSIVE Str(_)
Str(n) == IF n < 10 THEN <<Digits[n + 1]>>
          ELSE Str(n \div 10) \o <<Digits[(n % 10) + 1]>>

UpperToLower == [c \in {"A", "B"} |-> IF c = "A" THEN "a" ELSE "b"]

\* str.lower(), character by character
LowerChar(c) == IF c \in DOMAIN UpperToLower THEN UpperToLower[c] ELSE c
Lower(s) == [i \in 1..Len(s) |-> LowerChar(s[i])]

Letters == {"a", "b", "A", "B"}
DigitChars == {"0", "1", "2", "3", "4", "5", "6", "7", "8", "9"}
Spaces == {" "}
\* \w of the re module: letters, digits and the underscore
WordChars == Letters \cup DigitChars \cup {"_"}
\* the alphabet of display names: letters of both cases, a digit, the
\* space, the hyphen, the underscore and one other punctuation character
NameChars == {"A", "b", "1", " ", "-", "_", "!"}

RECURSIVE LStrip(_, _)
LStrip(s, ch) == IF s # <<>> /\ Head(s) = ch THEN LStrip(Tail(s), ch) ELSE s

RECURSIVE RStrip(_, _)
RStrip(s, ch) == IF s # <<>> /\ s[Len(s)] = ch
                 THEN RStrip(SubSeq(s, 1, Len(s) - 1), ch) ELSE s

\* str.strip(ch)
Strip(s, ch) == RStrip(LStrip(s, ch), ch)

\* re.sub(r'[^KEEP]', '', s): characters outside keep are deleted
RECURSIVE DeleteOutside(_, _)
DeleteOutside(s, keep) ==
    IF s = <<>> THEN <<>>
    ELSE IF Head(s) \in keep THEN <<Head(s)>> \o DeleteOutside(Tail(s), keep)
         ELSE DeleteOutside(Tail(s), keep)

\* re.sub(r'[CLASS]+', '-', s) with inClass = TRUE, re.sub(r'[^CLASS]+', '-', s)
\* with inClass = FALSE: every maximal run of matching characters becomes
\* one hyphen
RECURSIVE SubRuns(_, _, _)
SubRuns(s, class, inClass) ==
    IF s = <<>> THEN <<>>
    ELSE IF (Head(s) \in class) = inClass
         THEN IF Len(s) > 1 /\ ((s[2] \in class) = inClass)
              THEN SubRuns(Tail(s), class, inClass)
              ELSE <<"-">> \o SubRuns(Tail(s), class, inClass)
         ELSE <<Head(s)>> \o SubRuns(Tail(s), class, inClass)

------------------------------------------------------------------------------
(* Slug normalisation *)

\* anuncio: _simple_slugify(text)
_simple_slugify(text) ==
    LET lowered == Lower(text)
        kept == DeleteOutside(lowered, WordChars \cup Spaces \cup {"-"})
        joined == SubRuns(kept, {"-"} \cup Spaces, TRUE)
    IN  Strip(joined, "-")

\* asset_manager: slugify(self.name), the python-slugify library with its
\* defaults: lower-case, runs of characters outside [-a-zA-Z0-9] become a
\* hyphen, runs of hyphens collapse, leading and trailing hyphens go
slugify(text) ==
    LET lowered == Lower(text)
        dashed == SubRuns(lowered, {"-"} \cup Letters \cup DigitChars, FALSE)
        single == SubRuns(dashed, {"-"}, TRUE)
    IN  Strip(single, "-")

base_slug_of(v, name) ==
    IF v = "anuncio" THEN _simple_slugify(name) ELSE slugify(name)

------------------------------------------------------------------------------
(* The asset table and Asset.save() *)

NoSerial == "none"                 \* anuncio rows carry no serial number
Serials == {"SN1", "SN2"}          \* serial numbers the asset form submits

\* display names of the concurrency runs: "Ab b1" and "ab-b1" normalise to
\* the same base slug, "ab-b1-1" normalises to its first suffixed form
SaveNames == { <<"A", "b", " ", "b", "1">>,
               <<"a", "b", "-", "b", "1">>,
               <<"a", "b", "-", "b", "1", "-", "1">> }

IdleSave == [pc |-> "idle", id |-> 0, user_id |-> 0, name |-> <<>>,
             serial_number |-> NoSerial, slug |-> <<>>, base_slug |-> <<>>,
             cand |-> <<>>, counter |-> 0, commits |-> 0, tried |-> <<>>,
             seen |-> 0, resave |-> FALSE, old_slug |-> <<>>,
             result |-> "none"]

\* select(Asset).where(Asset.slug == slug) / Asset.query.filter_by(slug=...)
SlugHeld(slug) == \E i \in 1..Len(asset) : asset[i].slug = slug

\* Asset.query.filter_by(serial_number=self.serial_number).first()
SerialHeld(serial) == \E i \in 1..Len(asset) : asset[i].serial_number = serial

\* the unique index on asset.slug, checked when the row id is written
SlugUniqueViolatedNever(id, slug) == FALSE
SlugUniqueViolated(id, slug) ==
    \E i \in 1..Len(asset) : i # id /\ asset[i].slug = slug

\* the unique index on asset.serial_number (asset_manager only)
SerialUniqueViolatedNever(id, serial) == FALSE
SerialUniqueViolated(id, serial) ==
    /\ variant = "asset_manager"
    /\ \E i \in 1..Len(asset) : i # id /\ asset[i].serial_number = serial

\* anuncio: slug = f"{base_slug}-{counter}"
GenSuffixedNoHyphen(base_slug, counter) == base_slug \o Str(counter)
GenSuffixed(base_slug, counter) == base_slug \o <<"-">> \o Str(counter)

\* asset_manager: current_slug = f"{base_slug}-{counter}" if counter > 0 else base_slug
current_slug_from_zero(base_slug, counter) ==
    IF counter >= 0 THEN base_slug \o <<"-">> \o Str(counter) ELSE base_slug
current_slug_of(base_slug, counter) ==
    IF counter > 0 THEN base_slug \o <<"-">> \o Str(counter) ELSE base_slug

\* entry of save() on the object o (id 0: a new Asset; otherwise the stored
\*   row id, loaded and possibly renamed).
\* anuncio: "if not self.slug" starts _generate_unique_slug (base form first,
\*   counter = 1), else goes straight to the commit.
\* asset_manager: base_slug = slugify(self.name), counter = 0, first
\*   current_slug assigned to self.slug, then add and commit.
EnterSave(p, o) ==
    LET base == base_slug_of(variant, o.name)
        common == [IdleSave EXCEPT !.id = o.id, !.user_id = o.user_id,
                       !.name = o.name, !.serial_number = o.serial_number,
                       !.slug = o.slug, !.old_slug = o.slug,
                       !.resave = (o.id # 0),
                       !.seen = Len(asset)]
    IN  sv' = [sv EXCEPT ![p] =
            IF variant = "anuncio"
            THEN IF o.slug = <<>>
                 THEN [common EXCEPT !.pc = "probe", !.base_slug = base,
                           !.cand = base, !.counter = 1, !.tried = <<base>>]
                 ELSE [common EXCEPT !.pc = "commit"]
            ELSE LET c0 == current_slug_of(base, 0)
                 IN  [common EXCEPT !.pc = "commit", !.base_slug = base,
                          !.counter = 0, !.cand = c0, !.slug = c0,
                          !.tried = <<c0>>]]

\* flask_login current_user: the stored User the session's user id loads
\* (user_loader), 0 for the anonymous user
current_user(c) == IF session[c] \in 1..Len(user) THEN session[c] ELSE 0

\* @login_required lets the request through: current_user.is_authenticated
login_required_never(c) == TRUE
login_required(c) == current_user(c) # 0

\* Asset(user_id=current_user.id, name=..., ...).save() begins: the route
\* requires a logged-in user and builds a new Asset from the form
StartSave(p) ==
    /\ sv[p].pc = "idle"
    /\ login_required(p)
    /\ saves < MaxSaves
    /\ saves' = saves + 1
    /\ \E name \in names :
       \E serial \in (IF variant = "asset_manager" THEN Serials ELSE {NoSerial}) :
          EnterSave(p, [id |-> 0, user_id |-> current_user(p), name |-> name,
                        serial_number |-> serial, slug |-> <<>>])
    /\ UNCHANGED <<variant, names, asset, user, session, su, resp, next_arg>>

\* counter += 1, in the loop of either variant
next_counter_stuck(counter) == counter
next_counter(counter) == counter + 1

\* anuncio, _generate_unique_slug: one turn of the while loop, one query
Probe(p) ==
    /\ sv[p].pc = "probe"
    /\ sv' = [sv EXCEPT ![p] =
          IF SlugHeld(sv[p].cand)
          THEN LET c == GenSuffixed(sv[p].base_slug, sv[p].counter)
               IN  [@ EXCEPT !.cand = c, !.counter = next_counter(@),
                             !.tried = Append(@, c)]
          ELSE [@ EXCEPT !.slug = sv[p].cand, !.pc = "commit"]]
    /\ UNCHANGED <<variant, names, asset, user, session, su, resp, next_arg, saves>>

\* the row save() writes: an INSERT for a new Asset, an UPDATE of row id
\* otherwise; started_after and base_free record, for the stored row, how
\* many rows were stored when its save() began and whether its base slug
\* was free when it was written
WrittenTable(o) ==
    LET row == [user_id |-> o.user_id, name |-> o.name,
                serial_number |-> o.serial_number, slug |-> o.slug,
                started_after |-> o.seen,
                base_free |-> ~SlugHeld(o.base_slug)]
    IN  IF o.id = 0 THEN Append(asset, row)
        ELSE [asset EXCEPT ![o.id] =
                 [@ EXCEPT !.name = o.name, !.slug = o.slug]]

\* db.session.add(self); db.session.commit(): the write succeeds, or the
\* unique indexes raise IntegrityError.  anuncio catches the first one only;
\* asset_manager catches every one.
Commit(p) ==
    /\ sv[p].pc = "commit"
    /\ IF \/ SlugUniqueViolated(sv[p].id, sv[p].slug)
          \/ SerialUniqueViolated(sv[p].id, sv[p].serial_number)
       THEN /\ sv' = [sv EXCEPT ![p] =
                  IF variant = "anuncio" /\ sv[p].commits >= 1
                  THEN [@ EXCEPT !.commits = @ + 1, !.pc = "done",
                                 !.result = "IntegrityError"]
                  ELSE [@ EXCEPT !.commits = @ + 1, !.pc = "rollback"]]
            /\ UNCHANGED asset
       ELSE /\ asset' = WrittenTable(sv[p])
            /\ sv' = [sv EXCEPT ![p] =
                  [@ EXCEPT !.commits = @ + 1, !.pc = "done",
                            !.id = IF @ = 0 THEN Len(asset) + 1 ELSE @,
                            !.result = "ok"]]
    /\ UNCHANGED <<variant, names, user, session, su, resp, next_arg, saves>>

\* except IntegrityError: db.session.rollback()
\* anuncio then runs _generate_unique_slug again from the base form;
\* asset_manager goes on to look for the cause
Rollback(p) ==
    /\ sv[p].pc = "rollback"
    /\ sv' = [sv EXCEPT ![p] =
          IF variant = "anuncio"
          THEN LET base == _simple_slugify(sv[p].name)
               IN  [@ EXCEPT !.pc = "probe", !.base_slug = base,
                             !.cand = base, !.counter = 1,
                             !.tried = <<base>>]
          ELSE [@ EXCEPT !.pc = "check_slug"]]
    /\ UNCHANGED <<variant, names, asset, user, session, su, resp, next_arg, saves>>

\* asset_manager: if Asset.query.filter_by(slug=current_slug).first():
\*   counter += 1; continue   (the loop head builds the next current_slug)
CheckSlug(p) ==
    /\ sv[p].pc = "check_slug"
    /\ sv' = [sv EXCEPT ![p] =
          IF SlugHeld(sv[p].cand)
          THEN LET c == current_slug_of(sv[p].base_slug,
                                        next_counter(sv[p].counter))
               IN  [@ EXCEPT !.counter = next_counter(@), !.cand = c,
                             !.slug = c,
                             !.tried = Append(@, c), !.pc = "commit"]
          ELSE [@ EXCEPT !.pc = "check_serial"]]
    /\ UNCHANGED <<variant, names, asset, user, session, su, resp, next_arg, saves>>

\* asset_manager: a held serial number raises ValueError, anything else
\* re-raises the IntegrityError
CheckSerial(p) ==
    /\ sv[p].pc = "check_serial"
    /\ sv' = [sv EXCEPT ![p] =
          [@ EXCEPT !.pc = "done",
                    !.result = IF SerialHeld(sv[p].serial_number)
                               THEN "ValueError" ELSE "IntegrityError"]]
    /\ UNCHANGED <<variant, names, asset, user, session, su, resp, next_arg, saves>>

\* save() has returned or raised; the request ends
Return(p) ==
    /\ sv[p].pc = "done"
    /\ sv' = [sv EXCEPT ![p] = IdleSave]
    /\ UNCHANGED <<variant, names, asset, user, session, su, resp, next_arg, saves>>

------------------------------------------------------------------------------
(* URLs: a URL is a sequence of tokens, a token being one delimiter        *)
(* character or one run of scheme characters (letters, digits, "+-.").    *)

\* runs of scheme characters that begin with a letter
WordTokens == {"http", "https", "HTTP", "ftp", "example.com", "evil.com",
               "profile", "x"}

\* str.lower() on a run
LowerToken(t) == IF t = "HTTP" THEN "http" ELSE t
LowerTokens(s) == [k \in 1..Len(s) |-> LowerToken(s[k])]

\* str.find(tok) + 1: index of the first occurrence from position from, 0 if none
RECURSIVE FindFrom(_, _, _)
FindFrom(s, tok, from) ==
    IF from > Len(s) THEN 0
    ELSE IF s[from] = tok THEN from ELSE FindFrom(s, tok, from + 1)

\* urllib.parse: schemes that take relative references / a network location
uses_relative == {<<>>, <<"ftp">>, <<"http">>, <<"https">>}
uses_netloc == {<<>>, <<"ftp">>, <<"http">>, <<"https">>}

\* the one element of a singleton set: { e(x) : x \in {v} } computes v once
\* and uses the value as x
Only(S) == CHOOSE v \in S : TRUE

\* urllib.parse.urlsplit(url, scheme) (urlparse adds only the ";params"
\* split, and no token is ";", "?" or "#"): the scheme is the run before
\* the first ":" when that run starts the URL, is lower-cased; "//" opens
\* the network location, which ends at the next "/"; a network location
\* with "[" and no "]" raises ValueError("Invalid IPv6 URL")
urlsplit(url, default_scheme) ==
    Only({ LET has_scheme == /\ i > 1
                             /\ \A k \in 1..(i - 1) : url[k] \in WordTokens
               scheme == IF has_scheme THEN LowerTokens(SubSeq(url, 1, i - 1))
                         ELSE default_scheme
               rest == IF has_scheme THEN SubSeq(url, i + 1, Len(url)) ELSE url
               has_netloc == Len(rest) >= 2 /\ rest[1] = "/" /\ rest[2] = "/"
               d == FindFrom(rest, "/", 3)
               delim == IF d = 0 THEN Len(rest) + 1 ELSE d
               netloc == IF has_netloc THEN SubSeq(rest, 3, delim - 1) ELSE <<>>
               path == IF has_netloc THEN SubSeq(rest, delim, Len(rest))
                       ELSE rest
           IN  [raised |-> /\ has_netloc
                           /\ \E k \in 1..Len(netloc) : netloc[k] = "[",
                scheme |-> scheme, netloc |-> netloc, path |-> path]
         : i \in {FindFrom(url, ":", 1)} })

\* urllib.parse.urlunsplit((scheme, netloc, url, '', ''))
urlunsplit(scheme, netloc, path) ==
    LET with_netloc ==
            IF \/ netloc # <<>>
               \/ /\ scheme # <<>>
                  /\ scheme \in uses_netloc
                  /\ ~(Len(path) >= 2 /\ path[1] = "/" /\ path[2] = "/")
            THEN <<"/", "/">> \o netloc
                   \o (IF path # <<>> /\ path[1] # "/" THEN <<"/">> \o path
                       ELSE path)
            ELSE path
    IN  IF scheme # <<>> THEN scheme \o <<":">> \o with_netloc ELSE with_netloc

\* the filter(None, segments[1:-1]) of urljoin on a relative path: empty
\* middle segments go, so every run of "/" becomes one "/"
RECURSIVE CollapseSlashes(_)
CollapseSlashes(path) ==
    IF path = <<>> THEN <<>>
    ELSE IF Head(path) = "/" /\ Len(path) > 1 /\ path[2] = "/"
         THEN CollapseSlashes(Tail(path))
         ELSE <<Head(path)>> \o CollapseSlashes(Tail(path))

\* urljoin once base and url are parsed into b and u
join_parsed(b, u, url) ==
    IF u.raised THEN [raised |-> TRUE, url |-> <<>>]
    ELSE IF u.scheme # b.scheme \/ u.scheme \notin uses_relative
    THEN [raised |-> FALSE, url |-> url]
    ELSE IF u.scheme \in uses_netloc /\ u.netloc # <<>>
    THEN [raised |-> FALSE, url |-> urlunsplit(u.scheme, u.netloc, u.path)]
    ELSE IF u.path = <<>>
    THEN [raised |-> FALSE, url |-> urlunsplit(u.scheme, b.netloc, b.path)]
    ELSE IF u.path[1] = "/"
    THEN [raised |-> FALSE, url |-> urlunsplit(u.scheme, b.netloc, u.path)]
    ELSE [raised |-> FALSE,
          url |-> urlunsplit(u.scheme, b.netloc,
                             <<"/">> \o CollapseSlashes(u.path))]

\* urllib.parse.urljoin(base, url) for a base whose path is "/" (no token
\* is "." or ".."): [raised, url]
urljoin(base, url) ==
    IF url = <<>> THEN [raised |-> FALSE, url |-> base]
    ELSE Only({ Only({ join_parsed(b, u, url) : u \in {urlsplit(url, b.scheme)} })
              : b \in {urlsplit(base, <<>>)} })

\* request.host_url of the running application
host_url == <<"http", ":", "/", "/", "example.com", "/">>

\* the return expression of is_safe_url
same_origin(ref_url, target_url) ==
    /\ target_url.scheme \in {<<"http">>, <<"https">>}
    /\ ref_url.netloc = target_url.netloc

\* is_safe_url(target): "True", "False", or "ValueError" when urljoin or
\* urlparse raises (nothing in is_safe_url catches it)
is_safe_url(target) ==
    Only({ IF joined.raised THEN "ValueError"
           ELSE Only({ IF target_url.raised THEN "ValueError"
                       ELSE IF same_origin(urlsplit(host_url, <<>>), target_url)
                            THEN "True" ELSE "False"
                     : target_url \in {urlsplit(joined.url, <<>>)} })
         : joined \in {urljoin(host_url, target)} })

------------------------------------------------------------------------------
(* Users and the auth routes *)

Emails == {"ana@x.org", "bob@x.org"}
Passwords == {"pw1", "pw2"}

\* generate_password_hash: opaque, kept apart from the clear text
generate_password_hash(password) == <<"hash", password>>

\* check_password_hash(self.password_hash, password)
check_password(u, password) == u.password_hash = generate_password_hash(password)

\* User.get_by_email(email): the id of the row holding email, 0 for None
get_by_email(email) ==
    IF \E i \in 1..Len(user) : user[i].email = email
    THEN CHOOSE i \in 1..Len(user) : user[i].email = email
    ELSE 0

\* the unique index on user.email
EmailUniqueViolatedNever(email) == FALSE
EmailUniqueViolated(email) == \E i \in 1..Len(user) : user[i].email = email

\* url_for('index'), url_for('login'), url_for('signup')
url_index == <<"/">>
url_login == <<"/", "login">>
url_signup == <<"/", "signup", "/">>

\* the 'next' query argument is absent
NoNext == <<"absent">>

IdleSignup == [pc |-> "idle", email |-> "", password |-> "", held |-> FALSE]

\* a response: status, redirect location, flashed message, form field
\* error, shown (the id of the Asset on the rendered page, 0 for none); of
\* an asset creation, serial_held (its serial number was held by a stored
\* Asset when it arrived) and retried (save() tried more than one slug);
\* of an asset view, slug (the slug asked for);
\* and about the request that produced it: kind (which case of the
\* route it was), logged_in and created (whether it established a session
\* / stored a row); of a login that succeeded, next (its 'next' argument)
\* and guard (what is_safe_url answered); of a signup, held (its email was
\* held by a stored user when it arrived; of an asset view: its slug was
\* held by a stored Asset) and authenticated (its client
\* was logged in when it arrived)
NoResp == [route |-> "none", status |-> 0, location |-> <<>>, flash |-> "",
           field_error |-> "", kind |-> "none", next |-> NoNext,
           guard |-> "not_called", logged_in |-> FALSE, created |-> FALSE,
           held |-> FALSE, authenticated |-> FALSE,
           serial_held |-> FALSE, retried |-> FALSE,
           slug |-> <<>>, shown |-> 0]

redirect(route, location, flash, kind) ==
    [NoResp EXCEPT !.route = route, !.status = 302, !.location = location,
                   !.flash = flash, !.kind = kind]

render_template(route, status, flash, kind) ==
    [NoResp EXCEPT !.route = route, !.status = status, !.flash = flash,
                   !.kind = kind]

\* a 'next' argument the request carries: absent, or the link's value
NextArgs == {NoNext, next_arg}

\* which case a login submission is, told from the stored users alone
LoginCase(email, password) ==
    IF ~(\E i \in 1..Len(user) : user[i].email = email) THEN "unknown_email"
    ELSE IF \E i \in 1..Len(user) :
               /\ user[i].email = email
               /\ user[i].password_hash = generate_password_hash(password)
         THEN "ok" ELSE "wrong_password"

\* login: "user is None or not user.check_password(...)" negated
credentials_ok_any_password(uid, password) == uid # 0
credentials_ok(uid, password) == uid # 0 /\ check_password(user[uid], password)

\* the flashed message of a rejected login
invalid_credentials == IF variant = "anuncio" THEN "Credenciales invalidas"
                       ELSE "Invalid email or password."

\* what a login or signup form submits: both fields filled in (either
\* email with the first password, the first email with the second one), or
\* (one representative of a form that fails DataRequired, as a GET fails
\* validate_on_submit) both empty
Forms == {[email |-> "", password |-> ""]}
         \cup {[email |-> e, password |-> "pw1"] : e \in Emails}
         \cup {[email |-> "ana@x.org", password |-> "pw2"]}

\* the login route once the user is looked up (uid) and, for a present and
\* non-empty 'next', is_safe_url has answered (guard)
login_answer(c, email, password, next, uid, guard) ==
    IF session[c] # 0
    THEN redirect("login", url_index, "", "already_authenticated")
    ELSE IF email = "" \/ password = ""
    THEN [render_template("login", 200, "", "invalid_form")
             EXCEPT !.field_error = "This field is required."]
    ELSE IF ~credentials_ok(uid, password)
    THEN IF variant = "anuncio"
         THEN redirect("login", url_login, invalid_credentials,
                       LoginCase(email, password))
         ELSE render_template("login", 200, invalid_credentials,
                              LoginCase(email, password))
    ELSE LET welcome == IF variant = "anuncio" THEN "" ELSE "Welcome back"
         IN  IF guard = "ValueError"
             THEN [render_template("login", 500, welcome,
                                   LoginCase(email, password))
                      EXCEPT !.logged_in = TRUE, !.next = next,
                             !.guard = guard]
             ELSE [redirect("login",
                            IF guard = "True" THEN next ELSE url_index,
                            welcome, LoginCase(email, password))
                      EXCEPT !.logged_in = TRUE, !.next = next,
                             !.guard = guard]

\* POST /login?next=<next> with the form fields email and password
login(c) ==
    /\ \E form \in Forms : \E next \in NextArgs :
       \E uid \in {get_by_email(form.email)} :
       \E guard \in {IF next # NoNext /\ next # <<>> THEN is_safe_url(next)
                     ELSE "not_called"} :
       \E answer \in {login_answer(c, form.email, form.password, next, uid,
                                   guard)} :
          /\ resp' = [resp EXCEPT ![c] = answer]
          /\ session' = [session EXCEPT ![c] =
                 IF answer.logged_in THEN uid ELSE @]
    /\ UNCHANGED <<variant, names, asset, sv, user, su, next_arg, saves>>

\* GET /logout: anuncio requires a login (an anonymous client is sent to
\* the login page), asset_manager logs out whoever asks
logout(c) ==
    /\ resp' = [resp EXCEPT ![c] =
          IF variant = "anuncio" /\ session[c] = 0
          THEN redirect("logout", url_login, "", "unauthorized")
          ELSE redirect("logout", url_index, "logged out", "ok")]
    /\ session' = [session EXCEPT ![c] = 0]
    /\ UNCHANGED <<variant, names, asset, sv, user, su, next_arg, saves>>

\* the flashed messages of a refused signup
email_exists == IF variant = "anuncio" THEN "Este email ya esta registrado."
                ELSE "Email address already exists. Please log in."
registration_error == "An error occurred during registration"

\* POST /signup/ arrives: an authenticated client is sent home; the form is
\* validated (DataRequired on every field; in anuncio SignupForm.validate_email
\* looks the email up); a valid form goes on to the route's own lookup
signup_submit(c) ==
    /\ su[c].pc = "idle"
    /\ \E form \in Forms :
       LET email == form.email
           password == form.password
           held == \E i \in 1..Len(user) : user[i].email = email
           about(r) == [r EXCEPT !.held = held,
                                 !.authenticated = (session[c] # 0)]
       IN  IF session[c] # 0
           THEN /\ resp' = [resp EXCEPT ![c] =
                       about(redirect("signup", url_index, "",
                                      "already_authenticated"))]
                /\ UNCHANGED su
           ELSE IF email = "" \/ password = ""
           THEN /\ resp' = [resp EXCEPT ![c] =
                       about([render_template("signup", 200, "", "form_errors")
                                 EXCEPT !.field_error = "This field is required."])]
                /\ UNCHANGED su
           ELSE IF variant = "anuncio" /\ get_by_email(email) # 0
           THEN /\ resp' = [resp EXCEPT ![c] =
                       about([render_template("signup", 200, "", "form_errors")
                                 EXCEPT !.field_error =
                                     "This email is already registered."])]
                /\ UNCHANGED su
           ELSE /\ su' = [su EXCEPT ![c] = [pc |-> "check", email |-> email,
                                            password |-> password,
                                            held |-> held]]
                /\ UNCHANGED resp
    /\ UNCHANGED <<variant, names, asset, sv, user, session, next_arg, saves>>

\* if models.User.get_by_email(form.email.data): flash; redirect(signup)
signup_check(c) ==
    /\ su[c].pc = "check"
    /\ IF get_by_email(su[c].email) # 0
       THEN /\ resp' = [resp EXCEPT ![c] =
                   [redirect("signup", url_signup, email_exists,
                             "duplicate_email")
                       EXCEPT !.held = su[c].held]]
            /\ su' = [su EXCEPT ![c] = IdleSignup]
       ELSE /\ su' = [su EXCEPT ![c].pc = "save"]
            /\ UNCHANGED resp
    /\ UNCHANGED <<variant, names, asset, sv, user, session, next_arg, saves>>

\* new_user.set_password(...); new_user.save(); login_user(new_user)
\* the unique index on email may refuse the row: anuncio lets the
\* IntegrityError through (500), asset_manager rolls back and flashes
signup_save(c) ==
    /\ su[c].pc = "save"
    /\ IF EmailUniqueViolated(su[c].email)
       THEN /\ resp' = [resp EXCEPT ![c] =
                   [(IF variant = "anuncio"
                     THEN render_template("signup", 500, "", "integrity_error")
                     ELSE render_template("signup", 200, registration_error,
                                          "registration_error"))
                       EXCEPT !.held = su[c].held]]
            /\ UNCHANGED <<user, session>>
       ELSE /\ user' = Append(user,
                   [email |-> su[c].email,
                    password_hash |-> generate_password_hash(su[c].password)])
            /\ session' = [session EXCEPT ![c] = Len(user) + 1]
            /\ resp' = [resp EXCEPT ![c] =
                   [redirect("signup", url_index, "registered", "ok")
                       EXCEPT !.held = su[c].held, !.created = TRUE,
                              !.logged_in = TRUE]]
    /\ su' = [su EXCEPT ![c] = IdleSignup]
    /\ UNCHANGED <<variant, names, asset, sv, next_arg, saves>>

------------------------------------------------------------------------------
(* The asset routes *)

\* url_for('asset_view', slug=slug)
url_asset_view(slug) == <<"/", "asset", "/">> \o slug \o <<"/">>

\* the flashed messages of create_asset / register_asset
asset_created == IF variant = "anuncio" THEN "Activo registrado con exito!"
                 ELSE "Asset created successfully!"
duplicate_error ==
    "Error: The asset name (for slug) or serial number might be a duplicate."
serial_exists ==
    "Error: Serial number already exists. Please use a unique serial number."

\* the serial number of the save() of p was held by an Asset stored before
\* that save() began
SerialHeldAtStart(p) ==
    /\ variant = "asset_manager"
    /\ \E i \in 1..Len(asset) :
          /\ i <= sv[p].seen
          /\ i # sv[p].id
          /\ asset[i].serial_number = sv[p].serial_number

\* Asset.get_by_slug(slug): db.session.scalar(select...), the id of the
\* first row holding slug, 0 for None
get_by_slug(slug) ==
    IF SlugHeld(slug)
    THEN CHOOSE i \in 1..Len(asset) :
             /\ asset[i].slug = slug
             /\ \A j \in 1..(i - 1) : asset[j].slug # slug
    ELSE 0

\* @app.route('/asset/<slug>/'): the default (string) converter takes one
\* non-empty path segment
route_matches(slug) ==
    /\ slug # <<>>
    /\ \A k \in 1..Len(slug) : slug[k] # "/"

\* the slugs a client asks for: the base slugs of the behaviour's display
\* names and one no Asset ever holds
ViewSlugs == { base_slug_of(variant, name) : name \in names } \cup {<<"z">>}

\* GET /asset/<slug>/: the URL is url_for('asset_view', slug=slug); a URL no
\* route matches is answered 404 by the framework; the view answers 404
\* (anuncio: the 404 template; asset_manager: abort(404), rendered by the
\* error handler) when get_by_slug finds nothing, the Asset's page otherwise
asset_view(c) ==
    /\ \E slug \in ViewSlugs : \E a \in {get_by_slug(slug)} :
          resp' = [resp EXCEPT ![c] =
              [(IF ~route_matches(slug) \/ a = 0
                THEN render_template("asset_view", 404, "", "not_found")
                ELSE [render_template("asset_view", 200, "", "ok")
                         EXCEPT !.shown = a])
                  EXCEPT !.slug = slug, !.held = SlugHeld(slug)]]
    /\ UNCHANGED <<variant, names, asset, sv, user, session, su, next_arg, saves>>

\* GET|POST /admin/asset/new (asset_manager), /admin/asset/register
\* (anuncio) from a client that is not logged in: @login_required sends it
\* to login_manager.login_view and the route body does not run
create_asset_unauthorized(c) ==
    /\ ~login_required(c)
    /\ resp' = [resp EXCEPT ![c] =
          redirect("create_asset", url_login, "Please log in", "unauthorized")]
    /\ UNCHANGED <<variant, names, asset, sv, user, session, su, next_arg, saves>>

\* the end of create_asset / register_asset, once save() has returned or
\* raised: success flashes and redirects to the new Asset's page;
\* asset_manager catches IntegrityError and ValueError, flashes and renders
\* the form again; anuncio catches nothing (500)
create_asset_respond(p) ==
    /\ sv[p].pc = "done"
    /\ ~sv[p].resave
    /\ resp' = [resp EXCEPT ![p] =
          [(IF sv[p].result = "ok"
            THEN [redirect("create_asset", url_asset_view(sv[p].slug),
                           asset_created, "ok")
                     EXCEPT !.created = TRUE]
            ELSE IF variant = "anuncio"
            THEN render_template("create_asset", 500, "", sv[p].result)
            ELSE render_template("create_asset", 200,
                                 IF sv[p].result = "ValueError"
                                 THEN serial_exists ELSE duplicate_error,
                                 sv[p].result))
              EXCEPT !.authenticated = (sv[p].user_id # 0),
                     !.serial_held = SerialHeldAtStart(p),
                     !.retried = (Len(sv[p].tried) >= 2)]]
    /\ sv' = [sv EXCEPT ![p] = IdleSave]
    /\ UNCHANGED <<variant, names, asset, user, session, su, next_arg, saves>>

------------------------------------------------------------------------------
(* Specification of concurrent asset creation: a state of the running    *)
(* application in which one user is registered and every client is       *)
(* logged in as that user, the asset table still empty.                   *)

Init ==
    /\ variant \in Variants
    /\ names = SaveNames
    /\ asset = <<>>
    /\ sv = [p \in Procs |-> IdleSave]
    /\ user = <<[email |-> "ana@x.org",
                 password_hash |-> generate_password_hash("pw1")]>>
    /\ session = [p \in Procs |-> 1]
    /\ su = [p \in Procs |-> IdleSignup]
    /\ resp = [p \in Procs |-> NoResp]
    /\ next_arg = <<>>
    /\ saves = 0

SaveStep(p) ==
    \/ Probe(p)
    \/ Commit(p)
    \/ Rollback(p)
    \/ CheckSlug(p)
    \/ CheckSerial(p)
    \/ Return(p)

Next == \E p \in Procs : StartSave(p) \/ SaveStep(p)

Spec == Init /\ [][Next]_vars

\* every request that has begun a save() keeps running: the server does
\* not abandon a request in the middle of Asset.save()
FairSpec == Spec /\ \A p \in Procs : WF_vars(SaveStep(p))

------------------------------------------------------------------------------
(* Specification with later save() calls on stored Assets: a stored row   *)
(* is loaded, its name possibly changed, and save() is called on it.      *)

\* display names of these runs; the last one normalises to the empty slug
ResaveNames == { <<"A", "b", " ", "b", "1">>,
                 <<"a", "b", "-", "b", "2">>,
                 <<"!", "!", "!", "!", "!">> }

\* asset = Asset.get_by_slug(...); asset.name = name; asset.save()
StartResave(p) ==
    /\ sv[p].pc = "idle"
    /\ saves < MaxSaves
    /\ saves' = saves + 1
    /\ \E i \in 1..Len(asset) : \E name \in names :
          EnterSave(p, [id |-> i, user_id |-> asset[i].user_id, name |-> name,
                        serial_number |-> asset[i].serial_number,
                        slug |-> asset[i].slug])
    /\ UNCHANGED <<variant, names, asset, user, session, su, resp, next_arg>>

InitResave ==
    /\ variant \in Variants
    /\ names = ResaveNames
    /\ asset = <<>>
    /\ sv = [p \in Procs |-> IdleSave]
    /\ user = <<[email |-> "ana@x.org",
                 password_hash |-> generate_password_hash("pw1")]>>
    /\ session = [p \in Procs |-> 1]
    /\ su = [p \in Procs |-> IdleSignup]
    /\ resp = [p \in Procs |-> NoResp]
    /\ next_arg = <<>>
    /\ saves = 0

NextResave == \E p \in Procs : StartSave(p) \/ StartResave(p) \/ SaveStep(p)

SpecResave == InitResave /\ [][NextResave]_vars

------------------------------------------------------------------------------
(* Specification sweeping the display names of the anuncio asset form:    *)
(* every behaviour saves one name, several times over.                    *)

\* DataRequired(): the field is not empty and not only whitespace
DataRequired(text) == \E k \in 1..Len(text) : text[k] \notin Spaces

\* the names AssetForm accepts, over NameChars, up to MaxNameLen characters
FormNames == { text \in UNION { [1..n -> NameChars] : n \in 1..MaxNameLen } :
                   DataRequired(text) }

InitSlug ==
    /\ variant = "anuncio"
    /\ \E name \in FormNames : names = {name}
    /\ asset = <<>>
    /\ sv = [p \in Procs |-> IdleSave]
    /\ user = <<[email |-> "ana@x.org",
                 password_hash |-> generate_password_hash("pw1")]>>
    /\ session = [p \in Procs |-> 1]
    /\ su = [p \in Procs |-> IdleSignup]
    /\ resp = [p \in Procs |-> NoResp]
    /\ next_arg = <<>>
    /\ saves = 0

NextSlug ==
    \E p \in Procs :
        StartSave(p) \/ Probe(p) \/ Commit(p) \/ Rollback(p) \/ Return(p)

SpecSlug == InitSlug /\ [][NextSlug]_vars

------------------------------------------------------------------------------
(* Specification of the login route and its redirect guard: a state of   *)
(* the running application with one registered user and anonymous        *)
(* clients; every behaviour is about one value of the 'next' argument.   *)

MaxTargetLen == 3    \* longest 'next' value of the token sweep

UrlTokens == {"http", "ftp", "example.com", "evil.com", ":", "/", "["}

\* the 'next' values named by the contract
ExampleTargets == { <<"http", ":", "/", "/", "evil.com", "/", "x">>,
                    <<"HTTP", ":", "/", "/", "evil.com", "/", "x">>,
                    <<"https", ":", "/", "/", "example.com", "/", "x">>,
                    <<"/", "/", "evil.com", "/", "x">>,
                    <<"http", ":", "/", "/", "[", "evil.com">>,
                    <<"/", "profile">> }

Targets == ExampleTargets
           \cup UNION { [1..n -> UrlTokens] : n \in 0..MaxTargetLen }

InitLogin ==
    /\ variant \in Variants
    /\ names = SaveNames
    /\ asset = <<>>
    /\ sv = [p \in Procs |-> IdleSave]
    /\ user = <<[email |-> "ana@x.org",
                 password_hash |-> generate_password_hash("pw1")]>>
    /\ session = [p \in Procs |-> 0]
    /\ su = [p \in Procs |-> IdleSignup]
    /\ resp = [p \in Procs |-> NoResp]
    /\ next_arg \in Targets
    /\ saves = 0

NextLogin == \E c \in Procs : login(c) \/ logout(c)

SpecLogin == InitLogin /\ [][NextLogin]_vars

------------------------------------------------------------------------------
(* Specification of the auth routes from the empty database: concurrent  *)
(* signups, logins and logouts; no link carries a 'next' argument.        *)

InitAuth ==
    /\ variant \in Variants
    /\ names = SaveNames
    /\ asset = <<>>
    /\ sv = [p \in Procs |-> IdleSave]
    /\ user = <<>>
    /\ session = [p \in Procs |-> 0]
    /\ su = [p \in Procs |-> IdleSignup]
    /\ resp = [p \in Procs |-> NoResp]
    /\ next_arg = NoNext
    /\ saves = 0

NextAuth ==
    \E c \in Procs :
        \/ signup_submit(c)
        \/ signup_check(c)
        \/ signup_save(c)
        \/ login(c)
        \/ logout(c)

SpecAuth == InitAuth /\ [][NextAuth]_vars

------------------------------------------------------------------------------
(* Specification of the asset creation route: as the concurrent creation, *)
(* each request ending with the route's response.                         *)

NextCreate ==
    \E p \in Procs :
        \/ StartSave(p)
        \/ Probe(p)
        \/ Commit(p)
        \/ Rollback(p)
        \/ CheckSlug(p)
        \/ CheckSerial(p)
        \/ create_asset_respond(p)

SpecCreate == Init /\ [][NextCreate]_vars

------------------------------------------------------------------------------
(* Specification of the whole application: signups, logins, logouts and   *)
(* asset creations, begun in a state with one registered user who has     *)
(* stored one Asset and then logged out; no link carries a 'next'         *)
(* argument, and the creations that follow use the stored Asset's name.   *)

\* the Asset stored at the start, as save() wrote it
FirstAsset ==
    LET name == <<"A", "b", " ", "b", "1">>
    IN  [user_id |-> 1, name |-> name,
         serial_number |-> IF variant = "asset_manager" THEN "SN1"
                           ELSE NoSerial,
         slug |-> base_slug_of(variant, name),
         started_after |-> 0, base_free |-> TRUE]

InitApp ==
    /\ variant \in Variants
    /\ names = {<<"A", "b", " ", "b", "1">>}
    /\ asset = <<FirstAsset>>
    /\ sv = [p \in Procs |-> IdleSave]
    /\ user = <<[email |-> "ana@x.org",
                 password_hash |-> generate_password_hash("pw1")]>>
    /\ session = [p \in Procs |-> 0]
    /\ su = [p \in Procs |-> IdleSignup]
    /\ resp = [p \in Procs |-> NoResp]
    /\ next_arg = NoNext
    /\ saves = MaxSaves - 1

NextApp ==
    \E c \in Procs :
        \/ signup_submit(c)
        \/ signup_check(c)
        \/ signup_save(c)
        \/ login(c)
        \/ logout(c)
        \/ create_asset_unauthorized(c)
        \/ StartSave(c)
        \/ Probe(c)
        \/ Commit(c)
        \/ Rollback(c)
        \/ CheckSlug(c)
        \/ CheckSerial(c)
        \/ create_asset_respond(c)

SpecApp == InitApp /\ [][NextApp]_vars

------------------------------------------------------------------------------
(* Specification of the asset pages: logged-in clients create Assets and  *)
(* clients fetch asset pages, concurrently.                               *)

\* display names of these runs; the second one normalises to the empty slug
ViewNames == { <<"A", "b", " ", "b", "1">>, <<"!", "!", "!", "!", "!">> }

InitView ==
    /\ variant \in Variants
    /\ names = ViewNames
    /\ asset = <<>>
    /\ sv = [p \in Procs |-> IdleSave]
    /\ user = <<[email |-> "ana@x.org",
                 password_hash |-> generate_password_hash("pw1")]>>
    /\ session = [p \in Procs |-> 1]
    /\ su = [p \in Procs |-> IdleSignup]
    /\ resp = [p \in Procs |-> NoResp]
    /\ next_arg = NoNext
    /\ saves = 0

NextView == \E p \in Procs : StartSave(p) \/ SaveStep(p) \/ asset_view(p)

SpecView == InitView /\ [][NextView]_vars

------------------------------------------------------------------------------
(* Claims about the slug generator under concurrent writers *)

Rows == 1..Len(asset)

\* C1: in every reachable state of the asset table no two stored Assets
\* hold the same slug, whatever the interleaving of the writers' probes,
\* commits, rollbacks and re-probes.
C1_SlugUnique ==
    \A i \in Rows : \A j \in Rows : i # j => asset[i].slug # asset[j].slug

\* a writer lost the race for a slug, was rolled back, retried and is now
\* stored beside another Asset of the same display name
C1_Witness ==
    \E p \in Procs :
        /\ sv[p].pc = "done" /\ sv[p].result = "ok" /\ sv[p].commits >= 2
        /\ \E i \in Rows : i # sv[p].id /\ asset[i].name = sv[p].name

\* C2: a uniqueness violation on the slug is never surfaced to the caller
\* of save(): save() retries until a commit succeeds, so no save() ends
\* with the IntegrityError of the unique index.
C2_SlugConflictNeverSurfaces ==
    \A p \in Procs : sv[p].result # "IntegrityError"

\* slug is base followed by a hyphen and a number
NumberSuffixed(slug, base) ==
    \E n \in 0..(Len(asset) + 1) : slug = base \o <<"-">> \o Str(n)

\* C3: of two Assets with identical display names, the second one's save()
\* beginning after the first was stored, the slugs differ, the first holds
\* the base slug if that was free when it was written, and the second
\* holds the base slug followed by a hyphen and a number.
C3_SequentialPairsDiffer ==
    \A i \in Rows : \A j \in Rows :
        (i # j /\ asset[i].name = asset[j].name /\ asset[j].started_after >= i)
        => LET base == base_slug_of(variant, asset[i].name)
           IN  /\ asset[i].slug # asset[j].slug
               /\ asset[i].base_free => asset[i].slug = base
               /\ NumberSuffixed(asset[j].slug, base)

C3_Witness ==
    \E i \in Rows : \E j \in Rows :
        /\ i # j /\ asset[i].name = asset[j].name
        /\ asset[j].started_after >= i
        /\ asset[i].slug = base_slug_of(variant, asset[i].name)

\* C4 as claimed: the k-th candidate of one probe sequence is the base form
\* for k = 1; after it anuncio appends "-1", "-2", ... and asset_manager
\* appends "-0", "-1", ...
C4_AssetManagerStartsAtZero ==
    \A p \in Procs :
        \A k \in 1..Len(sv[p].tried) :
            sv[p].tried[k] =
                IF k = 1 THEN sv[p].base_slug
                ELSE sv[p].base_slug \o <<"-">>
                        \o Str(IF variant = "anuncio" THEN k - 1 ELSE k - 2)

\* C4 amended: in both variants the k-th candidate of one probe sequence is
\* the base form for k = 1 and the base form followed by "-" and k - 1
\* after it: the first suffix is "-1" and the counter grows by one per
\* collision.
C4_BothStartAtOne ==
    \A p \in Procs :
        \A k \in 1..Len(sv[p].tried) :
            sv[p].tried[k] =
                IF k = 1 THEN sv[p].base_slug
                ELSE sv[p].base_slug \o <<"-">> \o Str(k - 1)

\* an asset_manager writer collided on the base form and stored its first
\* suffixed candidate
C4_Witness ==
    \E p \in Procs :
        /\ variant = "asset_manager"
        /\ Len(sv[p].tried) = 2
        /\ sv[p].result = "ok"
        /\ asset[sv[p].id].slug = sv[p].tried[2]

\* C5: a later save() on a stored Asset leaves its stored slug as it was
\* before the call, whether or not the name was changed.
C5_SlugNeverChanges ==
    \A p \in Procs :
        (sv[p].resave /\ sv[p].pc = "done" /\ sv[p].result = "ok")
        => asset[sv[p].id].slug = sv[p].old_slug

\* the characters a slug may hold according to the contract: [a-z0-9-]
SlugChars == {"a", "b", "-"} \cup DigitChars

\* C6: every stored slug, collision suffix included, is lower-case, holds
\* only characters of [a-z0-9-], has no run of two or more hyphens and has
\* no leading or trailing hyphen.
C6_StoredSlugUrlSafe ==
    \A i \in 1..Len(asset) :
        LET slug == asset[i].slug
        IN  /\ \A k \in 1..Len(slug) : slug[k] \in SlugChars
            /\ \A k \in 1..(Len(slug) - 1) : ~(slug[k] = "-" /\ slug[k + 1] = "-")
            /\ slug # <<>> => (slug[1] # "-" /\ slug[Len(slug)] # "-")

------------------------------------------------------------------------------
(* Claims about the redirect guard and the login route *)

\* the 'next' values the contract names
foreign_absolute == <<"http", ":", "/", "/", "evil.com", "/", "x">>
foreign_scheme_relative == <<"/", "/", "evil.com", "/", "x">>
malformed == <<"http", ":", "/", "/", "[", "evil.com">>
host_relative == <<"/", "profile">>

\* target, joined against the host URL, has scheme http or https and the
\* network location of the request
ResolvesToSameOrigin(target) ==
    \E joined \in {urljoin(host_url, target)} :
        /\ ~joined.raised
        /\ \E t \in {urlsplit(joined.url, <<>>)} :
              /\ ~t.raised
              /\ t.scheme \in {<<"http">>, <<"https">>}
              /\ t.netloc = <<"example.com">>

\* C7: whenever is_safe_url was called on a 'next' value it returned true
\* or false; true only if the value, joined against the host URL, has
\* scheme http or https and the request's network location; false for an
\* absolute URL to a foreign host, for a scheme-relative URL to a foreign
\* host and for a malformed URL; true for a host-relative path.
C7_GuardIsSameOriginTest ==
    \A c \in Procs :
        resp[c].guard # "not_called"
        => /\ resp[c].guard \in {"True", "False"}
           /\ resp[c].guard = "True" => ResolvesToSameOrigin(resp[c].next)
           /\ resp[c].next \in {foreign_absolute, foreign_scheme_relative,
                                malformed}
              => resp[c].guard = "False"
           /\ resp[c].next = host_relative => resp[c].guard = "True"

\* C8: the response of a successful login is a redirect with no error
\* shown, to 'next' when 'next' is present, non-empty and is_safe_url
\* answered true, to index in every other case; its location is never on a
\* foreign host.
C8_LoginRedirectsSafely ==
    \A c \in Procs :
        (resp[c].route = "login" /\ resp[c].logged_in)
        => /\ resp[c].status = 302
           /\ resp[c].field_error = ""
           /\ resp[c].location =
                  IF /\ resp[c].next # NoNext
                     /\ resp[c].next # <<>>
                     /\ resp[c].guard = "True"
                  THEN resp[c].next ELSE url_index
           /\ ResolvesToSameOrigin(resp[c].location)

------------------------------------------------------------------------------
(* Claims about signup and login from the empty database *)

\* the response showed an error message to the user: a flashed refusal or
\* a validation error on a form field
ErrorShown(r) ==
    \/ r.flash \in {email_exists, registration_error}
    \/ r.field_error # ""

\* no two stored Users share an email
EmailsDistinct ==
    \A i \in 1..Len(user) : \A j \in 1..Len(user) :
        i # j => user[i].email # user[j].email

\* C9 as claimed: every signup request whose email was held by a stored
\* User when it arrived created no User, logged nobody in and showed an
\* error message; and no two stored Users share an email.
C9_HeldEmailAlwaysRefusedWithError ==
    /\ \A c \in Procs :
          (resp[c].route = "signup" /\ resp[c].held)
          => /\ ~resp[c].created
             /\ ~resp[c].logged_in
             /\ ErrorShown(resp[c])
    /\ EmailsDistinct

\* C9 amended: every signup request from a client that is not logged in,
\* whose email was held by a stored User when it arrived, created no User,
\* logged nobody in and showed an error message; a signup request from a
\* logged-in client creates no User either; and no two stored Users share
\* an email, concurrent signups with one email included.
C9_HeldEmailRefused ==
    /\ \A c \in Procs :
          (resp[c].route = "signup" /\ resp[c].held)
          => /\ ~resp[c].created
             /\ ~resp[c].logged_in
             /\ ~resp[c].authenticated => ErrorShown(resp[c])
    /\ EmailsDistinct

\* an anonymous client signed up with a held email and was shown an error
C9_Witness ==
    \E c \in Procs :
        /\ resp[c].route = "signup" /\ resp[c].held
        /\ ~resp[c].authenticated
        /\ ErrorShown(resp[c])
        /\ \E i \in 1..Len(user) : user[i].email = "ana@x.org"

\* what the client sees of a response, and what the request did
Observable(r) ==
    [status |-> r.status, location |-> r.location, flash |-> r.flash,
     field_error |-> r.field_error, logged_in |-> r.logged_in,
     created |-> r.created]

\* C10: a login with an email no User holds and a login with a registered
\* email and a wrong password get the same response, flashed message
\* included, and neither establishes a session or stores anything.
C10_LoginFailuresIndistinguishable ==
    \A c \in Procs : \A d \in Procs :
        (/\ resp[c].route = "login" /\ resp[c].kind = "unknown_email"
         /\ resp[d].route = "login" /\ resp[d].kind = "wrong_password")
        => /\ Observable(resp[c]) = Observable(resp[d])
           /\ ~resp[c].logged_in /\ ~resp[d].logged_in
           /\ ~resp[c].created /\ ~resp[d].created

\* one client was refused for an unknown email, the other for a wrong
\* password
C10_Witness ==
    /\ resp["p1"].route = "login" /\ resp["p1"].kind = "unknown_email"
    /\ resp["p2"].route = "login" /\ resp["p2"].kind = "wrong_password"

------------------------------------------------------------------------------
(* Claims about the asset routes *)

\* C11: in asset_manager, the creation of an Asset whose serial number was
\* held by a stored Asset when the request began never stores the Asset,
\* tries a further slug only after a slug another Asset holds, ends save()
\* with the ValueError of the serial number, and is answered with the form
\* and the serial number's error message, nothing created.
C11_HeldSerialRefused ==
    \A p \in Procs :
        /\ (sv[p].pc # "idle" /\ ~sv[p].resave /\ SerialHeldAtStart(p))
           => /\ sv[p].id = 0
              /\ sv[p].result \in {"none", "ValueError"}
              /\ sv[p].commits <= Len(sv[p].tried)
              /\ \A k \in 1..(Len(sv[p].tried) - 1) : SlugHeld(sv[p].tried[k])
        /\ (resp[p].route = "create_asset" /\ resp[p].serial_held)
           => /\ ~resp[p].created
              /\ resp[p].status = 200
              /\ resp[p].flash = serial_exists

\* a creation whose serial number and base slug were both taken was
\* refused with the serial number's message after trying a suffixed slug
C11_Witness ==
    \E p \in Procs :
        /\ resp[p].route = "create_asset"
        /\ resp[p].serial_held
        /\ resp[p].retried
        /\ resp[p].flash = serial_exists

\* C12: every stored Asset's user_id is the id of a stored User, every
\* running creation was begun by a logged-in client and carries that
\* user's id, every creation that stored an Asset came from a logged-in
\* client, and a creation request from a client that is not logged in is
\* sent to the login page and stores nothing.
C12_AssetsCreatedByLoggedInUsers ==
    /\ \A i \in 1..Len(asset) : asset[i].user_id \in 1..Len(user)
    /\ \A p \in Procs :
          /\ (sv[p].pc # "idle" /\ ~sv[p].resave)
             => sv[p].user_id \in 1..Len(user)
          /\ (resp[p].route = "create_asset" /\ resp[p].created)
             => resp[p].authenticated
          /\ (resp[p].route = "create_asset" /\ resp[p].kind = "unauthorized")
             => /\ ~resp[p].created
                /\ resp[p].status = 302
                /\ resp[p].location = url_login

\* the user who signed up after the start has stored an Asset, and a
\* client that is not logged in was turned away from the creation route
C12_Witness ==
    /\ \E i \in 1..Len(asset) : asset[i].user_id = 2
    /\ \E p \in Procs :
          /\ resp[p].route = "create_asset"
          /\ resp[p].kind = "unauthorized"
          /\ session[p] = 0

\* C13: GET /asset/<slug>/ is answered 404 exactly when no stored Asset
\* held the slug when the request arrived, and otherwise with the page of
\* the one Asset holding it.
C13_ViewFindsExactlyTheStored ==
    \A c \in Procs :
        resp[c].route = "asset_view"
        => /\ (resp[c].status = 404) <=> ~resp[c].held
           /\ resp[c].held
              => /\ resp[c].status = 200
                 /\ resp[c].shown \in 1..Len(asset)
                 /\ asset[resp[c].shown].slug = resp[c].slug
                 /\ \A i \in 1..Len(asset) :
                       asset[i].slug = resp[c].slug => i = resp[c].shown

------------------------------------------------------------------------------
(* Claims about termination *)

\* C14: with finitely many save() calls, every save() that has begun
\* eventually returns or raises; on the way the anuncio save() commits at
\* most twice, and every turn of a retry loop (the anuncio probe loop, the
\* asset_manager commit loop) raises the counter.
C14_SaveTerminates ==
    /\ [](\A p \in Procs : variant = "anuncio" => sv[p].commits <= 2)
    /\ [][\A p \in Procs :
             (/\ sv[p].pc \in {"probe", "check_slug"}
              /\ sv'[p].pc \in {"probe", "commit"}
              /\ sv'[p].tried # sv[p].tried)
             => sv'[p].counter > sv[p].counter]_vars
    /\ \A p \in Procs : (sv[p].pc # "idle") ~> (sv[p].pc = "done")

\* a save() that collided, went round its loop and then ended
C14_Witness ==
    \E p \in Procs :
        /\ sv[p].pc = "done"
        /\ sv[p].commits >= 2
        /\ sv[p].counter >= 2

====
